---- MODULE Spec2Model ----
(***************************************************************************)
(* A model of the audio streaming engine of DynamoJS                       *)
(* (src/src/Core/Jukebox/Jukebox.ts, class Jukebox, camelCase revision).   *)
(*                                                                         *)
(* Streams are named FIFO queues of tracks; update() advances the head     *)
(* track of every stream.  The host audio subsystem is modelled as far as  *)
(* the code reads and writes it: the audio clock (context.currentTime),    *)
(* the gain AudioParam of every track (its sampled value and its timeline  *)
(* of scheduled events), the panner position and the media element         *)
(* (playing / paused / ended).                                             *)
(*                                                                         *)
(* Volumes are integers 0..VolMax standing for 0..1; a gain value is a     *)
(* product of three volumes, so the gain 1.0 is VolMax^3.                  *)
(***************************************************************************)
EXTENDS Integers, Sequences, FiniteSets, Bags, TLC

\* ----------------------------------------------------------------- bounds
MaxTracks == 2      \* queueStream calls explored by Spec
MaxLife   == 2      \* queueStream calls explored by SpecTrack
MaxMix    == 1      \* queueStream calls explored by SpecMix
MaxLoops  == 1      \* loops arguments explored: -1..MaxLoops
MaxFade   == 2      \* the longest fadein / fadeout explored, in clock units
MaxFlight == 2      \* loadSound requests in flight at one time
MaxPlays  == 2      \* node graphs started by playSound
MaxCalls  == 2      \* onEntry / onExit calls counted per game state

\* Natural ends of one track that update() gets to observe: enough to use
\* up the largest loops argument.
MaxEnds   == MaxLoops + 1

VolMax    == 2      \* the volume 1.0

Names     == {"bgm", "sfx"}
Volumes   == {1, VolMax}
Loops     == -1..MaxLoops
Fades     == {0, MaxFade}
Positions == {[x |-> 0, y |-> 0], [x |-> 1, y |-> 2]}

NoHandle  == 0

\* Path prefixes and sound urls; a path is the concatenation of the two.
Prefixes  == {"", "assets/"}
Urls      == {"hit.wav"}

\* The GameState instances of the game; null is the absent next state.
GameStates == {"title", "level", "pause"}
null       == "null"
NoName     == ""

VARIABLES
  streams,    \* Jukebox.streams : name -> [volume, tracks, isPlaying]
  track,      \* the AudioTrack objects held by the queues, by identity
  settings,   \* the AudioTrackSettings objects of these tracks, by identity
  released,   \* what the host keeps of the tracks that left their queue
  written,    \* history: the settings objects that the caller has written
              \* since the last update(), with their value at that update()
  volume,     \* Jukebox.volume
  sounds,     \* Jukebox.sounds, the set of cached paths
  result,     \* the outcome of the last call of a Jukebox method
  pathPrefix, \* Jukebox.pathPrefix
  requests,   \* the XMLHttpRequests of loadSound that are in flight
  sources,    \* the one-shot node graphs that playSound has started
  settled,    \* history: the loads that playSound triggered and that ended
  looked,     \* history: the argument of the last getStream call
  states,     \* Engine.states, the stack of game states (top is last)
  transitionInfo, \* GameState.transitionInfo of every game state
  entries,    \* history: onEntry calls received by every game state
  exits       \* history: onExit calls received by every game state

loading == <<pathPrefix, requests, sources, settled>>
engine  == <<states, transitionInfo, entries, exits>>

vars == <<streams, track, settings, released, written, volume, sounds, result,
          loading, looked, engine>>

\* ------------------------------------------------------- gain AudioParam
\* Times are measured from the current audio-clock time: the code uses
\* context.currentTime only to schedule "at currentTime" or "at
\* currentTime + d", and the automation of an AudioParam does not depend
\* on where the origin of time is.  An event of the automation timeline
\* is kept with the time that remains until it is due.
currentTime == 0

Event(kind, value, time) == [kind |-> kind, value |-> value, time |-> time]

SelectBefore(tl, t) == SelectSeq(tl, LAMBDA e : e.time <= t)
SelectAfter(tl, t)  == SelectSeq(tl, LAMBDA e : e.time > t)

\* Insertion of an event: it replaces an event of the same kind at the
\* same time and goes after the events that are not later than it.
InsertEvent(tl, e) ==
  LET rest == SelectSeq(tl, LAMBDA f : ~(f.kind = e.kind /\ f.time = e.time))
  IN  SelectBefore(rest, e.time) \o <<e>> \o SelectAfter(rest, e.time)

\* AudioParam.cancelScheduledValues(t): drops the events at or after t.
cancelScheduledValues(g, t) ==
  [g EXCEPT !.events = SelectSeq(g.events, LAMBDA e : e.time < t)]

\* AudioParam.value = v: the sampled value becomes v at once and a
\* setValueAtTime(v, currentTime) event is recorded.
setValue(g, v) ==
  [value |-> v, events |-> InsertEvent(g.events, Event("set", v, currentTime))]

\* AudioParam.linearRampToValueAtTime(v, t)
linearRampToValueAtTime(g, v, t) ==
  [g EXCEPT !.events = InsertEvent(g.events, Event("ramp", v, t))]

\* Linear interpolation on the integer gain scale from v0 now to v1 at
\* time t1, sampled at time t; a value between two levels is rounded up,
\* so that a gain reads 0 only when it is 0.
Interpolate(v0, v1, t1, t) ==
  IF v1 >= v0
  THEN v0 + (((v1 - v0) * t + t1 - 1) \div t1)
  ELSE v0 - (((v0 - v1) * t) \div t1)

\* The value of the parameter at time t, as the render thread computes it:
\* the value of the last event that is due, or the point reached on the
\* ramp that follows it.
ValueAt(g, t) ==
  LET before == SelectBefore(g.events, t)
      after  == SelectAfter(g.events, t)
      v0     == IF before = <<>> THEN g.value ELSE before[Len(before)].value
      t0     == IF before = <<>> THEN currentTime ELSE before[Len(before)].time
  IN  IF after # <<>> /\ after[1].kind = "ramp"
      THEN Interpolate(v0, after[1].value, after[1].time - t0, t - t0)
      ELSE v0

\* The render thread, dt later: the sampled value is recomputed, the
\* events that were due are consumed and the others are dt closer.
Render(g, dt) ==
  [value  |-> ValueAt(g, dt),
   events |-> LET after == SelectAfter(g.events, dt)
              IN  [k \in 1..Len(after) |-> [after[k] EXCEPT !.time = @ - dt]]]

\* The ramps of a gain that are not yet over, and their targets.
PendingRamps(g) == SelectSeq(g.events, LAMBDA e : e.kind = "ramp")
RampTargets(g)  == [k \in 1..Len(PendingRamps(g)) |-> PendingRamps(g)[k].value]

\* ---------------------------------------------------------- media element
NewMedia == [playing |-> FALSE, ended |-> FALSE, played |-> FALSE]

\* HTMLMediaElement.play(): playback (re)starts, from the beginning when
\* it had ended.
play(m) == [m EXCEPT !.playing = TRUE, !.ended = FALSE, !.played = TRUE]

\* HTMLMediaElement.pause()
pause(m) == [m EXCEPT !.playing = FALSE]

\* ------------------------------------------------------------- operations
\* The outcome of a call: an error thrown, or a value returned.
Result(error, value) == [error |-> error, value |-> value]

Registered == DOMAIN streams
TrackIds   == DOMAIN track

\* Function update that also extends the domain.
Put(f, k, v) == [x \in DOMAIN f \cup {k} |-> IF x = k THEN v ELSE f[x]]
Restrict(f, S) == [x \in S |-> f[x]]

\* The tracks that the queues of the stream table st hold.
QueuedIn(st) ==
  UNION {{st[n].tracks[k] : k \in 1..Len(st[n].tracks)} : n \in DOMAIN st}

\* The stream whose queue holds track i.
StreamOf(i) ==
  CHOOSE n \in Registered : \E k \in 1..Len(streams[n].tracks) : streams[n].tracks[k] = i

\* What is kept of a track that no queue holds any more.  Such a track is
\* out of the reach of the Jukebox: nothing tears its node graph down, and
\* the host goes on playing its media element until it ends.  While it plays,
\* its skipped flag and the targets of the ramps that were pending on its gain
\* when it left are kept; once it is silent, only its identity is.
Orphan(n, t) ==
  IF t.media.playing
  THEN [stream |-> n, playing |-> TRUE, skipped |-> t.skipped,
        fade |-> RampTargets(t.gain)]
  ELSE [stream |-> n, playing |-> FALSE, skipped |-> FALSE, fade |-> << >>]

\* The tracks that left their queue, once the stream table is st and the
\* track objects are tr.
Released(st, tr) ==
  [i \in DOMAIN released \cup (DOMAIN tr \ QueuedIn(st)) |->
     IF i \in DOMAIN released THEN released[i] ELSE Orphan(StreamOf(i), tr[i])]

\* The new state of the stream table st, the track objects tr and the
\* settings objects se.
Store(st, tr, se) ==
  /\ streams'  = st
  /\ track'    = Restrict(tr, QueuedIn(st))
  /\ settings' = Restrict(se, {tr[i].settings : i \in QueuedIn(st)})
  /\ written'  = Restrict(written, DOMAIN written \cap {tr[i].settings : i \in QueuedIn(st)})
  /\ released' = Released(st, tr)

\* The same at the end of update(): from here on the history of the
\* caller's writes starts afresh.
StoreTick(st, tr, se) ==
  /\ streams'  = st
  /\ track'    = Restrict(tr, QueuedIn(st))
  /\ settings' = Restrict(se, {tr[i].settings : i \in QueuedIn(st)})
  /\ written'  = << >>
  /\ released' = Released(st, tr)

\* GameState constructor: no transition requested.
NewTransitionInfo == [next |-> null, kill |-> FALSE, transition |-> FALSE]

\* The state handed to the Engine constructor.
initialState == "title"

Init ==
  /\ streams  = << >>
  /\ track    = << >>
  /\ settings = << >>
  /\ released = << >>
  /\ written  = << >>
  /\ volume   = VolMax
  /\ sounds   = {}
  /\ result   = Result(FALSE, NoHandle)
  /\ pathPrefix = ""
  /\ requests = << >>
  /\ sources  = << >>
  /\ settled  = {}
  /\ looked   = NoName
  /\ states   = <<initialState>>
  /\ transitionInfo = [s \in GameStates |-> NewTransitionInfo]
  /\ entries  = [s \in GameStates |-> IF s = initialState THEN 1 ELSE 0]
  /\ exits    = [s \in GameStates |-> 0]

\* The unregistered-stream error of queueStream, skipStream, clearStream.
ThrowNoStream ==
  /\ result' = Result(TRUE, NoHandle)
  /\ UNCHANGED <<streams, track, settings, released, written, volume, sounds, loading, looked, engine>>

NewStream == [volume |-> VolMax, tracks |-> <<>>, isPlaying |-> TRUE]

\* Mutant: a name that is registered keeps its stream.
createStreamOnce(name) ==
  /\ Store(IF name \in Registered THEN streams ELSE Put(streams, name, NewStream),
           track, settings)
  /\ result' = Result(FALSE, NoHandle)
  /\ UNCHANGED <<volume, sounds, loading, looked, engine>>

createStream(name) ==
  /\ Store(Put(streams, name, NewStream), track, settings)
  /\ result' = Result(FALSE, NoHandle)
  /\ UNCHANGED <<volume, sounds, loading, looked, engine>>

\* The reference to the stream object registered under a name.
StreamHandle(name) == IF name = "bgm" THEN -1 ELSE -2

\* Mutant: a name that is not registered is an error.
getStreamThrows(name) ==
  /\ result' = IF name \in Registered THEN Result(FALSE, StreamHandle(name))
                                      ELSE Result(TRUE, NoHandle)
  /\ looked' = name
  /\ UNCHANGED <<streams, track, settings, released, written, volume, sounds, loading, engine>>

\* Map.get returns undefined (NoHandle) for a key that is not in the map.
getStream(name) ==
  /\ result' = Result(FALSE, IF name \in Registered THEN StreamHandle(name) ELSE NoHandle)
  /\ looked' = name
  /\ UNCHANGED <<streams, track, settings, released, written, volume, sounds, loading, engine>>

\* The track object that queueStream builds; h is its settings object.
NewTrack(h, fadein, loops) ==
  [loops    |-> loops,
   fadein   |-> fadein,
   start    |-> FALSE,
   skipped  |-> FALSE,
   settings |-> h,
   media    |-> NewMedia,
   gain     |-> [value |-> VolMax * VolMax * VolMax, events |-> <<>>],
   panner   |-> [x |-> 0, y |-> 0],
   queuedLoops |-> loops,    \* history: the loops argument
   observed    |-> 0]        \* history: natural ends seen by update()

\* tracks.push(track)
Push(tracks, id) == Append(tracks, id)

\* Mutant: a copy of the settings is returned, an object that no track holds.
ReturnedCopy(t) == NoHandle

\* return track.settings
ReturnedSettings(t) == t.settings

\* The identity of the next track object and of its settings object.
NextId == Cardinality(TrackIds \cup DOMAIN released) + 1

queueStream(name, vol, fadein, loops, position) ==
  IF name \notin Registered
  THEN ThrowNoStream
  ELSE LET id == NextId
           t  == NewTrack(id, fadein, loops)
       IN  /\ Store([streams EXCEPT ![name].tracks = Push(@, id)],
                    Put(track, id, t),
                    Put(settings, id, [volume |-> vol, position |-> position]))
           /\ result' = Result(FALSE, ReturnedSettings(t))
           /\ UNCHANGED <<volume, sounds, loading, looked, engine>>

\* Mutant: the fades that are scheduled are not cancelled.
skipTrackNoCancel(t, fadeout) ==
  LET gainNow == t.gain.value
      pinned  == setValue(t.gain, gainNow)
  IN  [t EXCEPT !.skipped = TRUE,
                !.gain    = linearRampToValueAtTime(pinned, 0, currentTime + fadeout)]

\* Mutant: the gain is pinned, no ramp to 0 is scheduled.
skipTrackNoRamp(t, fadeout) ==
  LET gainNow == t.gain.value
  IN  [t EXCEPT !.skipped = TRUE,
                !.gain    = setValue(cancelScheduledValues(t.gain, currentTime), gainNow)]

\* Mutant: the media of the skipped track is paused at once.
skipTrackPausing(t, fadeout) ==
  LET gainNow == t.gain.value
      pinned  == setValue(cancelScheduledValues(t.gain, currentTime), gainNow)
  IN  [t EXCEPT !.skipped = TRUE,
                !.media   = pause(@),
                !.gain    = linearRampToValueAtTime(pinned, 0, currentTime + fadeout)]

\* The head track as skipStream leaves it: flagged, its scheduled fades
\* cancelled, its gain pinned to the sampled value and ramped to 0.
skipTrack(t, fadeout) ==
  LET gainNow == t.gain.value
      pinned  == setValue(cancelScheduledValues(t.gain, currentTime), gainNow)
  IN  [t EXCEPT !.skipped = TRUE,
                !.gain    = linearRampToValueAtTime(pinned, 0, currentTime + fadeout)]

\* Mutant: the heads of all the streams are skipped, not the head of one.
skipStreamTracksEverywhere(name, fadeout) ==
  [i \in TrackIds |->
     IF \E n \in Registered : streams[n].tracks # << >> /\ streams[n].tracks[1] = i
     THEN skipTrack(track[i], fadeout)
     ELSE track[i]]

\* Mutant: every track of the queue is skipped, not the head alone.
skipStreamTracksAll(name, fadeout) ==
  [i \in TrackIds |-> IF StreamOf(i) = name THEN skipTrack(track[i], fadeout)
                                            ELSE track[i]]

\* The track objects after skipStream(name, fadeout) on a registered name.
skipStreamTracks(name, fadeout) ==
  LET tracks == streams[name].tracks
  IN  IF Len(tracks) = 0
      THEN track
      ELSE [track EXCEPT ![tracks[1]] = skipTrack(@, fadeout)]

\* Mutant: an unregistered name is treated like an empty queue.
skipStreamSilent(name, fadeout) ==
  IF name \notin Registered
  THEN /\ result' = Result(FALSE, NoHandle)
       /\ UNCHANGED <<streams, track, settings, released, written, volume, sounds, loading, looked, engine>>
  ELSE /\ Store(streams, skipStreamTracks(name, fadeout), settings)
       /\ result' = Result(FALSE, NoHandle)
       /\ UNCHANGED <<volume, sounds, loading, looked, engine>>

skipStream(name, fadeout) ==
  IF name \notin Registered
  THEN ThrowNoStream
  ELSE /\ Store(streams, skipStreamTracks(name, fadeout), settings)
       /\ result' = Result(FALSE, NoHandle)
       /\ UNCHANGED <<volume, sounds, loading, looked, engine>>

\* Mutant: tracks.splice(0, 1), only the head is removed.
SpliceHead(tracks) == SubSeq(tracks, 2, Len(tracks))

\* tracks.splice(0, tracks.length)
SpliceAll(tracks) == SubSeq(tracks, Len(tracks) + 1, Len(tracks))

\* Mutant: the queue is not spliced, the head is left to fade out.
clearStreamNoSplice(name, fadeout) ==
  IF name \notin Registered
  THEN ThrowNoStream
  ELSE /\ Store(streams, skipStreamTracks(name, fadeout), settings)
       /\ result' = Result(FALSE, NoHandle)
       /\ UNCHANGED <<volume, sounds, loading, looked, engine>>

clearStream(name, fadeout) ==
  IF name \notin Registered
  THEN ThrowNoStream
  ELSE /\ Store([streams EXCEPT ![name].tracks = SpliceAll(@)],
                skipStreamTracks(name, fadeout), settings)
       /\ result' = Result(FALSE, NoHandle)
       /\ UNCHANGED <<volume, sounds, loading, looked, engine>>

\* --------------------------------------------------------------- update()
\* tracks.shift(): on an empty array it removes nothing.
Shift(tracks) == IF tracks = <<>> THEN tracks ELSE Tail(tracks)

\* Mutant: the position is pushed to the panner when the track starts only.
refreshPositionAtStart(t) ==
  IF t.start THEN t ELSE [t EXCEPT !.panner = settings[t.settings].position]

\* "Keep track of position"
refreshPosition(t) == [t EXCEPT !.panner = settings[t.settings].position]

\* Mutant: the volume of the stream is left out, as in the first revision.
StartTargetNoStream(t, s) == settings[t.settings].volume * volume

\* The target of the fade-in ramp of a track that starts on stream s.
StartTarget(t, s) == settings[t.settings].volume * volume * s.volume

\* Mutant: the fade-in is scheduled again in every tick.
handleStartingAlways(t, s) ==
  [t EXCEPT !.gain  = linearRampToValueAtTime(setValue(@, 0),
                        StartTarget(t, s), currentTime + t.fadein),
            !.media = IF t.start THEN @ ELSE play(@),
            !.start = TRUE]

\* Mutant: the start flag is not set, play() is called in every tick.
handleStartingUnflagged(t, s) ==
  IF ~t.start
  THEN [t EXCEPT !.gain  = linearRampToValueAtTime(setValue(@, 0),
                             StartTarget(t, s), currentTime + t.fadein),
                 !.media = play(@)]
  ELSE t

\* "Handle starting"
handleStarting(t, s) ==
  IF ~t.start
  THEN [t EXCEPT !.gain  = linearRampToValueAtTime(setValue(@, 0),
                             StartTarget(t, s), currentTime + t.fadein),
                 !.media = play(@),
                 !.start = TRUE]
  ELSE t

\* "Handle skipping": the condition and the effect on the track.
\* Mutant: a skipped head is removed whatever its gain is.
SkipDoneByFlag(t) == t.skipped

SkipDone(t) == t.skipped /\ t.gain.value = 0

handleSkipping(t) ==
  IF SkipDone(t) THEN [t EXCEPT !.media = pause(@)] ELSE t

\* "Handle ending": the effect on the track.
handleEnding(t) ==
  IF t.media.ended
  THEN [t EXCEPT !.start    = FALSE,
                 !.loops    = IF @ # 0 THEN @ - 1 ELSE @,
                 !.observed = @ + 1]
  ELSE t

\* The head track of stream s after one pass of the forEach callback.
updateTrack(t, s) ==
  handleEnding(handleSkipping(handleStarting(refreshPosition(t), s)))

\* The queue of stream s after one pass of the forEach callback.
updateTracks(s) ==
  IF Len(s.tracks) = 0
  THEN s.tracks
  ELSE LET started == handleStarting(refreshPosition(track[s.tracks[1]]), s)
           skipped == IF SkipDone(started) THEN Shift(s.tracks) ELSE s.tracks
       IN  IF started.media.ended /\ started.loops = 0
           THEN Shift(skipped)
           ELSE skipped

\* Mutant: update() runs over every queued track, not over the heads.
HeadsAndRest == TrackIds

\* The head tracks at the beginning of update().
Heads == {streams[n].tracks[1] : n \in {m \in Registered : streams[m].tracks # <<>>}}

\* Mutant: the head of an empty queue is read, which is a TypeError.
updateUnguarded ==
  IF \E n \in Registered : streams[n].tracks = << >>
  THEN /\ result' = Result(TRUE, NoHandle)
       /\ UNCHANGED <<streams, track, settings, released, written, volume, sounds, loading, looked>>
  ELSE /\ StoreTick([n \in Registered |-> [streams[n] EXCEPT !.tracks = updateTracks(streams[n])]],
                [i \in TrackIds |->
                   IF i \in Heads THEN updateTrack(track[i], streams[StreamOf(i)])
                                  ELSE track[i]],
                settings)
       /\ result' = Result(FALSE, NoHandle)
       /\ UNCHANGED <<volume, sounds, loading, looked>>

update ==
  /\ StoreTick([n \in Registered |-> [streams[n] EXCEPT !.tracks = updateTracks(streams[n])]],
           [i \in TrackIds |->
              IF i \in Heads THEN updateTrack(track[i], streams[StreamOf(i)])
                             ELSE track[i]],
           settings)
  /\ result' = Result(FALSE, NoHandle)
  /\ UNCHANGED <<volume, sounds, loading, looked>>

\* -------------------------------------------------------- sound effects

\* `${Jukebox.pathPrefix}${url}`
Resolve(url) == pathPrefix \o url

\* The caller recorded with a request that a direct loadSound call sent.
NoCaller == [prefix |-> "", url |-> ""]

\* The request that loadSound(url) sends.  The path it fetches and the cache
\* key that its callback writes are one constant of the call; by is history:
\* the playSound call (prefix at the call, url argument) that sent it.
LoadRequest(url, by) == [path |-> Resolve(url), by |-> by]

setPathPrefix(prefix) ==
  /\ pathPrefix' = prefix
  /\ UNCHANGED <<result, streams, track, settings, released, written, volume,
                 sounds, requests, sources, settled, looked, engine>>

loadSound(url) ==
  /\ requests' = requests (+) SetToBag({LoadRequest(url, NoCaller)})
  /\ result'   = Result(FALSE, NoHandle)
  /\ UNCHANGED <<streams, track, settings, released, written, volume,
                 sounds, pathPrefix, sources, settled, looked, engine>>

\* The node graph that playSound builds and starts.
NodeGraph(fullpath, vol, position) ==
  [buffer |-> fullpath, gain |-> vol * volume, position |-> position]

\* Mutant: a miss starts a node graph as well.
playSoundUnchecked(url, vol, position) ==
  LET fullpath == Resolve(url)
  IN  /\ sources' = Append(sources, NodeGraph(fullpath, vol, position))
      /\ requests' = IF fullpath \in sounds THEN requests
                     ELSE requests (+) SetToBag({LoadRequest(fullpath,
                            [prefix |-> pathPrefix, url |-> url])})
      /\ result'  = Result(FALSE, NoHandle)
      /\ UNCHANGED <<streams, track, settings, released, written, volume,
                     sounds, pathPrefix, settled, looked, engine>>

playSound(url, vol, position) ==
  LET fullpath == Resolve(url)
  IN  /\ IF fullpath \notin sounds
         THEN /\ requests' = requests (+) SetToBag({LoadRequest(fullpath,
                               [prefix |-> pathPrefix, url |-> url])})
              /\ UNCHANGED sources
         ELSE /\ sources' = Append(sources, NodeGraph(fullpath, vol, position))
              /\ UNCHANGED requests
      /\ result' = Result(FALSE, NoHandle)
      /\ UNCHANGED <<streams, track, settings, released, written, volume,
                     sounds, pathPrefix, settled, looked, engine>>

\* History: how the load that a playSound call sent has ended.
Settle(r, ok) ==
  IF r.by = NoCaller THEN settled ELSE settled \cup {[by |-> r.by, ok |-> ok]}

\* Mutant: the cache holds one buffer, a new entry evicts the others.
onDecodedEvicting(r) ==
  /\ BagIn(r, requests)
  /\ requests' = requests (-) SetToBag({r})
  /\ sounds'   = {r.path}
  /\ settled'  = Settle(r, TRUE)
  /\ UNCHANGED <<result, streams, track, settings, released, written, volume,
                 pathPrefix, sources, looked, engine>>

\* The request is answered with status 200 and the data decodes.
onDecoded(r) ==
  /\ BagIn(r, requests)
  /\ requests' = requests (-) SetToBag({r})
  /\ sounds'   = sounds \cup {r.path}
  /\ settled'  = Settle(r, TRUE)
  /\ UNCHANGED <<result, streams, track, settings, released, written, volume,
                 pathPrefix, sources, looked, engine>>

\* Mutant: a decoding failure leaves an entry in the cache.
onDecodeErrorCached(r) ==
  /\ BagIn(r, requests)
  /\ requests' = requests (-) SetToBag({r})
  /\ sounds'   = sounds \cup {r.path, r.by.prefix \o r.by.url}
  /\ settled'  = Settle(r, FALSE)
  /\ UNCHANGED <<result, streams, track, settings, released, written, volume,
                 pathPrefix, sources, looked, engine>>

\* The request is answered with status 200 and the data does not decode: the
\* error callback throws in the host's task, outside every Jukebox call.
onDecodeError(r) ==
  /\ BagIn(r, requests)
  /\ requests' = requests (-) SetToBag({r})
  /\ settled'  = Settle(r, FALSE)
  /\ UNCHANGED <<result, streams, track, settings, released, written, volume,
                 sounds, pathPrefix, sources, looked, engine>>

\* The request ends with another status: onreadystatechange does nothing.
onRequestFailed(r) ==
  /\ BagIn(r, requests)
  /\ requests' = requests (-) SetToBag({r})
  /\ UNCHANGED <<result, streams, track, settings, released, written, volume,
                 sounds, pathPrefix, sources, settled, looked, engine>>

\* ----------------------------------------------------- Engine, GameState

\* GameState.setNext(next, kill)
setNext(s, next, kill) ==
  /\ transitionInfo' = [transitionInfo EXCEPT
                          ![s] = [next |-> next, kill |-> kill, transition |-> TRUE]]
  /\ UNCHANGED <<result, streams, track, settings, released, written, volume,
                 sounds, loading, looked, states, entries, exits>>

\* GameState.getTransitionInfo(): a copy of the object, { ...transitionInfo }.
getTransitionInfo(s) == transitionInfo[s]

Pop(stack) == SubSeq(stack, 1, Len(stack) - 1)

\* Engine.tick().  The branch that sets transition = false writes the copy
\* that getTransitionInfo returned: the GameState object keeps its own.  With
\* an empty stack, currentState is undefined and tick throws at once.
tick ==
  IF states = << >>
  THEN UNCHANGED vars
  ELSE LET currentState == states[Len(states)]
           info         == getTransitionInfo(currentState)
           kept         == IF info.kill THEN Pop(states) ELSE states
       IN  /\ IF info.transition
              THEN /\ exits'   = IF info.kill
                                 THEN [exits EXCEPT ![currentState] = @ + 1]
                                 ELSE exits
                   /\ entries' = IF info.next # null
                                 THEN [entries EXCEPT ![info.next] = @ + 1]
                                 ELSE entries
                   /\ states'  = IF info.next # null
                                 THEN Append(kept, info.next)
                                 ELSE kept
              ELSE UNCHANGED <<states, entries, exits>>
           /\ UNCHANGED transitionInfo
           /\ update

\* ------------------------------------------------- callers and environment
\* The caller writes the settings object that queueStream returned.
SetSettings(h, vol, position) ==
  /\ settings[h] # [volume |-> vol, position |-> position]
  /\ settings' = [settings EXCEPT ![h] = [volume |-> vol, position |-> position]]
  /\ written'  = IF h \in DOMAIN written THEN written ELSE Put(written, h, settings[h])
  /\ UNCHANGED <<result, streams, track, released, volume, sounds, loading, looked, engine>>

\* jukebox.volume = vol
SetVolume(vol) ==
  /\ vol # volume
  /\ volume' = vol
  /\ UNCHANGED <<result, streams, track, settings, released, written, sounds, loading, looked, engine>>

\* jukebox.getStream(name).volume = vol
SetStreamVolume(name, vol) ==
  /\ name \in Registered
  /\ vol # streams[name].volume
  /\ streams' = [streams EXCEPT ![name].volume = vol]
  /\ UNCHANGED <<result, track, settings, released, written, volume, sounds, loading, looked, engine>>

\* The audio clock advances by one unit; every gain is rendered.
ClockTick ==
  /\ track'    = [i \in TrackIds |-> [track[i] EXCEPT !.gain = Render(@, 1)]]
  /\ UNCHANGED <<result, streams, settings, released, written, volume, sounds, loading, looked, engine>>

\* The media element of a queued track reaches its end.
MediaEnded(i) ==
  /\ track[i].media.playing
  /\ track[i].observed < MaxEnds
  /\ track' = [track EXCEPT ![i].media = [@ EXCEPT !.playing = FALSE, !.ended = TRUE]]
  /\ UNCHANGED <<result, streams, settings, released, written, volume, sounds, loading, looked, engine>>

\* The media element of a track that left its queue reaches its end.
ReleasedEnded(i) ==
  /\ released[i].playing
  /\ released' = [released EXCEPT ![i] =
                    [stream |-> @.stream, playing |-> FALSE, skipped |-> FALSE,
                     fade |-> << >>]]
  /\ UNCHANGED <<result, streams, track, settings, written, volume, sounds, loading, looked, engine>>

\* The stream table with two names: whole queues, queued with one choice
\* of arguments.
Next ==
  \/ update /\ UNCHANGED engine
  \/ \E name \in Names : createStream(name)
  \/ /\ NextId <= MaxTracks
     /\ \E name \in Names :
           queueStream(name, VolMax, MaxFade, 0, [x |-> 1, y |-> 2])
  \/ \E name \in Names : skipStream(name, MaxFade)
  \/ \E name \in Names : clearStream(name, MaxFade)
  \/ ClockTick
  \/ \E i \in TrackIds : MediaEnded(i)
  \/ \E i \in DOMAIN released : ReleasedEnded(i)

Spec == Init /\ [][Next]_vars

\* One stream, created once: the life of a track under every choice of
\* loops, fadein and fadeout.
NextTrack ==
  \/ update /\ UNCHANGED engine
  \/ "bgm" \notin Registered /\ createStream("bgm")
  \/ /\ NextId <= MaxLife
     /\ \E fadein \in Fades, loops \in Loops :
           queueStream("bgm", VolMax, fadein, loops, [x |-> 1, y |-> 2])
  \/ \E fadeout \in Fades : skipStream("bgm", fadeout)
  \/ ClockTick
  \/ \E i \in TrackIds : MediaEnded(i)

SpecTrack == Init /\ [][NextTrack]_vars

\* One stream, created once, that plays one looping track at a time: the
\* three volumes and the position, changed by the caller at any time.
NextMix ==
  \/ update /\ UNCHANGED engine
  \/ "bgm" \notin Registered /\ createStream("bgm")
  \/ /\ NextId <= MaxMix
     /\ "bgm" \in Registered => streams["bgm"].tracks = << >>
     /\ queueStream("bgm", VolMax, MaxFade, MaxLoops, [x |-> 1, y |-> 2])
  \/ \E h \in DOMAIN settings, vol \in Volumes, position \in Positions :
        SetSettings(h, vol, position)
  \/ \E vol \in Volumes : SetVolume(vol)
  \/ \E vol \in Volumes : SetStreamVolume("bgm", vol)
  \/ ClockTick
  \/ \E i \in TrackIds : MediaEnded(i)

SpecMix == Init /\ [][NextMix]_vars

\* Sound effects: loads and one-shot sounds under both path prefixes, next to
\* one stream with queued tracks.
NextSound ==
  \/ \E prefix \in Prefixes : setPathPrefix(prefix)
  \/ /\ BagCardinality(requests) < MaxFlight
     /\ \E url \in Urls : loadSound(url)
  \/ /\ BagCardinality(requests) < MaxFlight
     /\ Len(sources) < MaxPlays
     /\ \E url \in Urls : playSound(url, VolMax, [x |-> 1, y |-> 2])
  \/ \E r \in BagToSet(requests) : onDecoded(r)
  \/ \E r \in BagToSet(requests) : onDecodeError(r)
  \/ \E r \in BagToSet(requests) : onRequestFailed(r)
  \/ "bgm" \notin Registered /\ createStream("bgm")
  \/ /\ NextId <= MaxMix
     /\ queueStream("bgm", VolMax, MaxFade, 0, [x |-> 1, y |-> 2])

SpecSound == Init /\ [][NextSound]_vars

\* Lookups by name: every operation that takes a stream name, on registered
\* and unregistered names.
NextLookup ==
  \/ update /\ UNCHANGED engine
  \/ \E name \in Names : createStream(name)
  \/ \E name \in Names : getStream(name)
  \/ /\ NextId <= MaxTracks
     /\ \E name \in Names : queueStream(name, VolMax, MaxFade, 0, [x |-> 1, y |-> 2])
  \/ \E name \in Names : skipStream(name, MaxFade)
  \/ \E name \in Names : clearStream(name, MaxFade)

SpecLookup == Init /\ [][NextLookup]_vars

\* The states that the game may hand to setNext: null, or an instance that
\* has not been entered and that no state holds as its next state.
Fresh == {n \in GameStates :
            entries[n] = 0 /\ \A s \in GameStates : transitionInfo[s].next # n}

\* The game loop: ticks, and game states that ask for a transition, each
\* GameState instance being handed to the engine once.
NextEngine ==
  \/ /\ \A s \in GameStates : entries[s] < MaxCalls /\ exits[s] < MaxCalls
     /\ tick
  \/ \E s \in GameStates, next \in Fresh \cup {null}, kill \in BOOLEAN :
        entries[s] > 0 /\ setNext(s, next, kill)
  \/ "bgm" \notin Registered /\ createStream("bgm")
  \/ /\ NextId <= MaxMix
     /\ queueStream("bgm", VolMax, MaxFade, 0, [x |-> 1, y |-> 2])

SpecEngine == Init /\ [][NextEngine]_vars

\* Moving sound sources: the caller writes the position of the settings
\* objects of the tracks of one stream, while they wait, play, are skipped
\* and end.
NextPan ==
  \/ update /\ UNCHANGED engine
  \/ "bgm" \notin Registered /\ createStream("bgm")
  \/ /\ NextId <= MaxLife
     /\ queueStream("bgm", VolMax, MaxFade, 0, [x |-> 1, y |-> 2])
  \/ \E h \in DOMAIN settings, position \in Positions :
        SetSettings(h, settings[h].volume, position)
  \/ skipStream("bgm", MaxFade)
  \/ ClockTick
  \/ \E i \in TrackIds : MediaEnded(i)

SpecPan == Init /\ [][NextPan]_vars

\* Loads that complete at any point between the operations on a stream and
\* the ticks of update().
NextCache ==
  \/ update /\ UNCHANGED engine
  \/ "bgm" \notin Registered /\ createStream("bgm")
  \/ /\ NextId <= MaxMix
     /\ queueStream("bgm", VolMax, MaxFade, 0, [x |-> 1, y |-> 2])
  \/ skipStream("bgm", MaxFade)
  \/ clearStream("bgm", MaxFade)
  \/ ClockTick
  \/ \E i \in TrackIds : MediaEnded(i)
  \/ \E prefix \in Prefixes : setPathPrefix(prefix)
  \/ /\ BagCardinality(requests) < MaxFlight
     /\ \E url \in Urls : loadSound(url)
  \/ \E r \in BagToSet(requests) : onDecoded(r)
  \/ \E r \in BagToSet(requests) : onDecodeError(r)
  \/ \E r \in BagToSet(requests) : onRequestFailed(r)

SpecCache == Init /\ [][NextCache]_vars

\* A stream that is created again and again, whatever its volume is and
\* whatever its queue holds.
NextReplace ==
  \/ update /\ UNCHANGED engine
  \/ createStream("bgm")
  \/ /\ NextId <= MaxTracks
     /\ queueStream("bgm", VolMax, MaxFade, 0, [x |-> 1, y |-> 2])
  \/ \E vol \in Volumes : SetStreamVolume("bgm", vol)
  \/ ClockTick
  \/ \E i \in TrackIds : MediaEnded(i)
  \/ \E i \in DOMAIN released : ReleasedEnded(i)

SpecReplace == Init /\ [][NextReplace]_vars

\* One skip per track: the head of the stream is skipped once, at any point
\* of its life, and the game loop and the audio clock go on.
NextSkip ==
  \/ update /\ UNCHANGED engine
  \/ "bgm" \notin Registered /\ createStream("bgm")
  \/ /\ NextId <= MaxMix
     /\ \E fadein \in Fades, loops \in {0, MaxLoops} :
           queueStream("bgm", VolMax, fadein, loops, [x |-> 1, y |-> 2])
  \/ /\ "bgm" \in Registered
     /\ streams["bgm"].tracks # << >>
     /\ ~track[streams["bgm"].tracks[1]].skipped
     /\ \E fadeout \in Fades : skipStream("bgm", fadeout)
  \/ ClockTick
  \/ \E i \in TrackIds : MediaEnded(i)

\* The engine keeps calling update() (Engine.run) and the audio clock keeps
\* advancing.
SpecSkip ==
  /\ Init
  /\ [][NextSkip]_vars
  /\ WF_vars(update /\ UNCHANGED engine)
  /\ WF_vars(ClockTick)

\* ------------------------------------------------------------------ claims
\* A step that is a call of one of the stream operations, with any
\* arguments.  (The first conjunct of QueueCall follows from the second; it
\* spares the enumeration of the arguments on the steps of other operations.)
QueueCall(name) ==
  /\ IF name \in Registered
     THEN Len(streams'[name].tracks) > Len(streams[name].tracks)
     ELSE result'.error
  /\ \E vol \in Volumes, fadein \in Fades, loops \in Loops, position \in Positions :
        queueStream(name, vol, fadein, loops, position)
SkipCall(name)  == \E fadeout \in Fades : skipStream(name, fadeout)
ClearCall(name) == \E fadeout \in Fades : clearStream(name, fadeout)

Range(q) == {q[k] : k \in 1..Len(q)}

\* C1: queueStream, skipStream and clearStream with a name that is not
\* registered fail with an error and change nothing: the stream table, the
\* queues, the tracks and the sound cache are as before the call.
C1_UnregisteredNameFails ==
  [][\A name \in Names \ Registered :
       (QueueCall(name) \/ SkipCall(name) \/ ClearCall(name))
       => /\ result'.error
          /\ UNCHANGED <<streams, track, settings, released, volume, sounds>>]_vars

\* An unregistered name was refused while tracks were queued.
C1_Witness ==
  /\ result.error
  /\ track # << >>
  /\ Names \ Registered # {}

\* C6: queueStream on a registered stream appends exactly one new track at
\* the tail of that queue, not started and not skipped, keeps the queued
\* tracks and their order, leaves the other streams alone and returns the
\* settings object of the new track, the one update() reads.
C6_QueueAppendsOne ==
  [][\A name \in Registered :
       QueueCall(name)
       => LET old == streams[name].tracks
              new == streams'[name].tracks
          IN  /\ ~result'.error
              /\ Len(new) = Len(old) + 1
              /\ SubSeq(new, 1, Len(old)) = old
              /\ new[Len(new)] \notin TrackIds \cup DOMAIN released
              /\ ~track'[new[Len(new)]].start
              /\ ~track'[new[Len(new)]].skipped
              /\ \A i \in TrackIds : i \in DOMAIN track' /\ track'[i] = track[i]
              /\ \A other \in Registered \ {name} : streams'[other] = streams[other]
              /\ result'.value \in DOMAIN settings'
              /\ result'.value = track'[new[Len(new)]].settings
              /\ \A i \in TrackIds : track'[i].settings # result'.value]_vars

\* A track was queued behind another one and its settings were returned.
C6_Witness ==
  \E name \in Registered :
     /\ Len(streams[name].tracks) >= 2
     /\ ~result.error
     /\ result.value = track[streams[name].tracks[Len(streams[name].tracks)]].settings

C9_ClearDropsRest ==
  [][/\ \A name \in Registered :
          ClearCall(name)
          => \A k \in 2..Len(streams[name].tracks) :
                LET i == streams[name].tracks[k]
                IN  /\ i \notin QueuedIn(streams')
                    /\ i \in DOMAIN released'
                    /\ ~track[i].media.played
                    /\ ~released'[i].playing
                    /\ released'[i].fade = << >>
     /\ \A i \in DOMAIN released :
          /\ i \notin QueuedIn(streams')
          /\ ~released[i].playing => ~released'[i].playing
          /\ Range(released'[i].fade) \subseteq Range(released[i].fade)]_vars

\* A stream was cleared with a track waiting behind a playing head: the
\* head plays on, the track that came after it is out of the queue, silent.
C9_Witness ==
  \E i, j \in DOMAIN released :
     /\ j = i + 1
     /\ released[i].stream = released[j].stream
     /\ released[i].playing /\ released[i].skipped /\ released[i].fade = <<0>>
     /\ ~released[j].playing /\ released[j].fade = << >>
     /\ streams[released[i].stream].tracks = << >>

\* The head track of stream n, and the target that its gain is heading to.
HeadOf(n) == streams[n].tracks[1]
FadeTarget(g) ==
  IF PendingRamps(g) = << >> THEN g.value
  ELSE PendingRamps(g)[Len(PendingRamps(g))].value

\* update() observes a natural end of track i in this tick: i is a head,
\* started, and its media has ended.
ObservesEnd(i) == i \in Heads /\ track[i].start /\ track[i].media.ended

\* C2: a track queued with loops = n >= 0 and never skipped keeps its place
\* through the first n natural ends that update() observes, its loops
\* dropping by one per observed end, and update() removes it in the tick
\* that observes the (n+1)-th end, not earlier and not later.
C2_LoopCountdown ==
  [][update =>
       \A i \in TrackIds :
          (track[i].queuedLoops >= 0 /\ ~track[i].skipped)
          => IF ObservesEnd(i) /\ track[i].observed = track[i].queuedLoops
             THEN i \notin DOMAIN track'
             ELSE /\ i \in DOMAIN track'
                  /\ track'[i].loops =
                       track[i].loops - (IF ObservesEnd(i) THEN 1 ELSE 0)
                  /\ track'[i].loops = track'[i].queuedLoops - track'[i].observed]_vars

\* C3: a track queued with loops = -1 is not removed from its queue by the
\* natural-end check of update(), however many times its media ends: a tick
\* removes it only by skip-completion, as the head of its queue, skipped and
\* with gain 0.
C3_InfiniteLoopStays ==
  [][update =>
       \A i \in TrackIds :
          (track[i].queuedLoops = -1 /\ i \notin DOMAIN track')
          => /\ i \in Heads
             /\ track[i].skipped
             /\ track[i].start => track[i].gain.value = 0]_vars

\* C10: skipStream on a head track that is already skipped leaves exactly
\* one pending ramp, to 0: the ramp of the first call is cancelled, the gain
\* is pinned to the value sampled at the second call and the skipped flag
\* stays set.
C10_SecondSkipReplacesFade ==
  [][\A n \in Registered :
       (SkipCall(n) /\ streams[n].tracks # << >> /\ track[HeadOf(n)].skipped)
       => LET g  == track[HeadOf(n)].gain
              g2 == track'[HeadOf(n)].gain
          IN  /\ streams'[n].tracks = streams[n].tracks
              /\ track'[HeadOf(n)].skipped
              /\ g2.value = g.value
              /\ Len(g2.events) = 2
              /\ g2.events[1] = Event("set", g.value, currentTime)
              /\ g2.events[2].kind = "ramp"
              /\ g2.events[2].value = 0]_vars

\* A track that starts at full gain was skipped, faded for a while and was
\* skipped again: its gain is pinned to the value it had faded to.
C10_Witness ==
  \E n \in Registered :
     /\ streams[n].tracks # << >>
     /\ LET t == track[HeadOf(n)]
        IN  /\ t.skipped /\ t.start /\ t.fadein = 0
            /\ t.gain.value > 0
            /\ t.gain.value < VolMax * VolMax * VolMax
            /\ Len(t.gain.events) = 2
            /\ t.gain.events[1] = Event("set", t.gain.value, currentTime)
            /\ t.gain.events[2].value = 0

\* C4: when update() starts or restarts a head track, it sets its gain to 0
\* and schedules one ramp, to settings.volume * jukebox.volume *
\* stream.volume as they are in this tick, ending fadein after the current
\* audio-clock time.
C4_StartSchedulesFadeIn ==
  [][update =>
       \A n \in Registered :
          (streams[n].tracks # << >> /\ ~track[HeadOf(n)].start)
          => LET t    == track[HeadOf(n)]
                 ramp == Event("ramp",
                           settings[t.settings].volume * volume * streams[n].volume,
                           currentTime + t.fadein)
             IN  /\ HeadOf(n) \in DOMAIN track'
                 /\ LET g2 == track'[HeadOf(n)].gain
                    IN  /\ g2.value = 0
                        /\ ramp \in Range(g2.events)
                        /\ Range(PendingRamps(g2)) \ Range(t.gain.events) \subseteq {ramp}
                        /\ Len(PendingRamps(g2)) <= Len(PendingRamps(t.gain)) + 1]_vars

\* A track was restarted after a natural end while the three volumes were
\* all lowered: its fade-in heads to their product.
C4_Witness ==
  \E n \in Registered :
     /\ streams[n].tracks # << >>
     /\ volume = 1 /\ streams[n].volume = 1
     /\ LET t == track[HeadOf(n)]
        IN  /\ t.start /\ t.observed >= 1
            /\ settings[t.settings].volume = 1
            /\ t.gain.value = 0
            /\ Event("ramp", 1, currentTime + t.fadein) \in Range(t.gain.events)

\* C5: update() on a head track that is started and not skipped leaves its
\* gain value and its scheduled ramps as they are, whatever the volumes are
\* now: while it plays, when it ends with loops left (the restart is for the
\* next tick), and when it ends with loops = 0 and is removed.
C5_SteadyGainUntouched ==
  [][update =>
       \A n \in Registered :
          (streams[n].tracks # << >> /\ track[HeadOf(n)].start
             /\ ~track[HeadOf(n)].skipped)
          => LET t == track[HeadOf(n)]
             IN  IF t.media.ended /\ t.loops = 0
                 THEN /\ HeadOf(n) \in DOMAIN released'
                      /\ released'[HeadOf(n)].fade = << >>
                 ELSE /\ HeadOf(n) \in DOMAIN track'
                      /\ track'[HeadOf(n)].gain = t.gain
                      /\ track'[HeadOf(n)].start = ~t.media.ended]_vars

\* A started track plays at a gain that is no longer the product of the
\* three volumes.
C5_Witness ==
  \E n \in Registered :
     /\ streams[n].tracks # << >>
     /\ LET t == track[HeadOf(n)]
        IN  /\ t.start /\ ~t.skipped /\ ~t.media.ended
            /\ t.gain.events = << >>
            /\ t.gain.value # settings[t.settings].volume * volume * streams[n].volume

PlayCall(url) ==
  /\ Len(sources') >= Len(sources)
  /\ \E vol \in Volumes, position \in Positions : playSound(url, vol, position)

\* The end of a load, whatever its outcome.
LoadEnds ==
  \E r \in BagToSet(requests) : onDecoded(r) \/ onDecodeError(r) \/ onRequestFailed(r)

\* C11: a playSound call that misses the cache returns without an error,
\* starts no node graph and sends one load request; when a load ends, with
\* whatever outcome, no node graph is started either, so the sound of the
\* call that missed is never played.
C11_MissPlaysNothing ==
  [][/\ \A url \in Urls :
          PlayCall(url) /\ Resolve(url) \notin sounds
          => /\ ~result'.error
             /\ sources' = sources
             /\ BagCardinality(requests') = BagCardinality(requests) + 1
     /\ LoadEnds => sources' = sources]_vars

\* The load sent by a playSound call that missed has succeeded, and nothing
\* has been played.
C11_Witness ==
  /\ \E s \in settled : s.ok
  /\ sources = << >>

\* C12: once the load that a playSound(url) call sent on a miss has succeeded,
\* a playSound(url) call under the same path prefix finds the buffer in the
\* cache and starts a node graph, for every prefix.
C12_HitAfterLoad ==
  [][\A url \in Urls :
       /\ PlayCall(url)
       /\ [by |-> [prefix |-> pathPrefix, url |-> url], ok |-> TRUE] \in settled
       => Len(sources') = Len(sources) + 1]_vars

\* C13: a load whose data does not decode writes no cache entry and changes
\* no stream and no track; the failure is not remembered: a playSound call
\* for the url of a failed load that misses the cache sends a fresh load
\* request, every time.
C13_DecodeErrorLeavesNoTrace ==
  [][/\ (\E r \in BagToSet(requests) : onDecodeError(r))
        => UNCHANGED <<sounds, streams, track, settings, released, sources>>
     /\ \A url \in Urls :
          /\ PlayCall(url)
          /\ Resolve(url) \notin sounds
          /\ [by |-> [prefix |-> pathPrefix, url |-> url], ok |-> FALSE] \in settled
          => /\ BagCardinality(requests') = BagCardinality(requests) + 1
             /\ sources' = sources
             /\ ~result'.error]_vars

\* After a failed load, the same playSound call has sent another request,
\* while a track is queued.
C13_Witness ==
  /\ TrackIds # {}
  /\ \E s \in settled :
       /\ ~s.ok
       /\ \E r \in BagToSet(requests) : r.by = s.by /\ Resolve(s.by.url) \notin sounds

\* C14: update() raises no error, and for every registered stream whose queue
\* is empty it leaves the stream as it was (empty queue, same volume, same
\* isPlaying), whatever the queues of the other streams hold.
C14_EmptyStreamUntouched ==
  [][update => /\ ~result'.error
               /\ \A n \in Registered :
                    streams[n].tracks = << >>
                    => n \in DOMAIN streams' /\ streams'[n] = streams[n]]_vars

\* A stream with an empty queue next to a stream whose head update() has
\* started.
C14_Witness ==
  \E n, m \in Registered :
     /\ streams[n].tracks = << >>
     /\ streams[m].tracks # << >>
     /\ track[streams[m].tracks[1]].start
     /\ ~result.error

\* C15 as claimed: every operation that takes a stream name, getStream
\* included, reports an error when the name is not registered.
C15_EveryLookupFails ==
  [][\A name \in Names \ Registered :
       (getStream(name) \/ QueueCall(name) \/ SkipCall(name) \/ ClearCall(name))
       => result'.error]_vars

\* C15 as the code has it: with a name that is not registered, queueStream,
\* skipStream and clearStream report an error, while getStream returns
\* undefined without an error and changes nothing.
C15_LookupReturnsUndefined ==
  [][\A name \in Names \ Registered :
       /\ (QueueCall(name) \/ SkipCall(name) \/ ClearCall(name)) => result'.error
       /\ getStream(name)
          => /\ ~result'.error
             /\ result'.value = NoHandle
             /\ UNCHANGED <<streams, track, settings, released, volume, sounds>>]_vars

\* getStream was last called with a name that is not registered and returned
\* undefined, while tracks are queued on another stream.
C15_Witness ==
  /\ looked \in Names \ Registered
  /\ result = Result(FALSE, NoHandle)
  /\ TrackIds # {}

\* C16: the engine calls onEntry at most once and onExit at most once on
\* every GameState instance, whatever ticks and setNext calls happen, a push
\* without kill followed by the exit of the pushed state included.
C16_EntryExitOnce ==
  \A s \in GameStates : entries[s] <= 1 /\ exits[s] <= 1

\* The gain value that update() reads in its skipping test: the value of the
\* head after the starting branch, which sets it to 0 for a track that is
\* not started.
SampledGain(t, s) == handleStarting(refreshPosition(t), s).gain.value

\* C17: update() does not remove or pause a skipped head track whose media
\* has not ended while the gain value sampled in that tick is not 0, however
\* long ago the skip was and whatever its fadeout.
C17_SkipWaitsForSilence ==
  [][update =>
       \A n \in Registered :
          streams[n].tracks # << >>
          => LET h == HeadOf(n)
             IN  /\ track[h].skipped
                 /\ ~track[h].media.ended
                 /\ SampledGain(track[h], streams[n]) # 0
                 => /\ streams'[n].tracks = streams[n].tracks
                    /\ track'[h].media = track[h].media]_vars

\* A skipped head whose fade-out is under way: time has passed since the
\* skip and the gain is between 0 and its value at the skip.
C17_Witness ==
  \E n \in Registered :
     /\ streams[n].tracks # << >>
     /\ LET t == track[HeadOf(n)]
        IN  /\ t.skipped /\ t.start /\ t.media.playing
            /\ t.gain.value > 0
            /\ t.gain.value < VolMax * VolMax * VolMax
            /\ RampTargets(t.gain) = <<0>>

\* The tracks of stream n that are queued behind the head.
Behind(n) == {streams[n].tracks[k] : k \in 2..Len(streams[n].tracks)}

\* C18: in every reachable state, every track that is queued behind the head
\* of its stream is as queueStream built it: not started, not skipped, its
\* loops the loops argument, its media and gain untouched.
C18_BehindHeadUntouched ==
  \A n \in Registered :
     \A i \in Behind(n) :
        /\ ~track[i].start
        /\ ~track[i].skipped
        /\ track[i].loops = track[i].queuedLoops
        /\ track[i] = NewTrack(track[i].settings, track[i].fadein, track[i].queuedLoops)

\* A track waits behind a head that update() has started and skipStream has
\* skipped.
C18_Witness ==
  \E n \in Registered :
     /\ Behind(n) # {}
     /\ track[HeadOf(n)].start
     /\ track[HeadOf(n)].skipped
     /\ track[HeadOf(n)].loops # track[HeadOf(n)].queuedLoops

\* play() has been called on queued track i in this step: its media was not
\* playing and is playing now.
PlayObserved(i) ==
  /\ i \in DOMAIN track'
  /\ ~track[i].media.playing
  /\ track'[i].media.playing

\* The tracks that stand before queued track i in the queue of its stream.
QueuedBefore(i) ==
  LET tracks == streams[StreamOf(i)].tracks
  IN  {tracks[j] : j \in {m \in 1..Len(tracks) :
                            \E k \in (m + 1)..Len(tracks) : tracks[k] = i}}

\* C19: within a stream, tracks are started in queue order: whenever play()
\* is called on a track, no track queued before it on the same stream is
\* still in the queue, that is, the track is the head.
C19_StartedInQueueOrder ==
  [][\A i \in TrackIds :
       PlayObserved(i) => QueuedBefore(i) = {}]_vars

\* The track that was queued second plays as the head, after the track
\* queued before it has left the queue.
C19_Witness ==
  \E n \in Registered :
     /\ streams[n].tracks # << >>
     /\ track[HeadOf(n)].media.playing
     /\ \E j \in DOMAIN released : released[j].stream = n /\ j < HeadOf(n)

\* C20: when the head of a stream was skipped before it was ever started,
\* update() raises no error and does not call play() on its media: the track
\* object that the pass over the stream leaves behind has never been played.
C20_SkippedUnstartedNotPlayed ==
  [][update =>
       \A n \in Registered :
          streams[n].tracks # << >>
          => LET t == track[HeadOf(n)]
             IN  t.skipped /\ ~t.media.played
                 => /\ ~result'.error
                    /\ ~updateTrack(t, streams[n]).media.played]_vars

\* C21: the start transition fires once per play pass.  play() is called on
\* a track only by update(), only while its start flag is false, and the
\* flag is true after that tick; the flag goes back to false only in a tick
\* of update() that observes a natural end.  So between two observed ends
\* (or between the first start and the first observed end) play() is called
\* exactly once, however many ticks elapse.
C21_StartOncePerPass ==
  [][\A i \in TrackIds \cap DOMAIN track' :
       /\ PlayObserved(i) => update /\ ~track[i].start /\ track'[i].start
       /\ (update /\ i \in Heads /\ ~track[i].start)
          => PlayObserved(i) /\ track'[i].start
       /\ (track[i].start /\ ~track'[i].start) => update /\ ObservesEnd(i)
       /\ (track[i].start /\ track'[i].start) => ~PlayObserved(i)]_vars

\* A track plays its second pass: update() has observed one natural end and
\* has started the track again.
C21_Witness ==
  \E i \in TrackIds :
     /\ track[i].observed > 0
     /\ track[i].start
     /\ track[i].media.playing

\* C22: in every tick of update() the panner of the head of every non-empty
\* stream gets the current value of settings.position, whatever its start
\* and skipped flags are and also when the tick removes the track; the
\* panner of a track that is not the head is written by no step.
C22_PositionRefreshed ==
  [][\A i \in TrackIds :
       LET position == settings[track[i].settings].position
       IN  IF update /\ i \in Heads
           THEN /\ updateTrack(track[i], streams[StreamOf(i)]).panner = position
                /\ i \in DOMAIN track' => track'[i].panner = position
           ELSE i \in DOMAIN track' => track'[i].panner = track[i].panner]_vars

\* The panner of a started and skipped head has taken a position that the
\* caller wrote after the start, while the panner of the track behind it
\* has not taken the position of its settings.
C22_Witness ==
  \E n \in Registered :
     /\ Behind(n) # {}
     /\ LET t == track[HeadOf(n)]
        IN  /\ t.start /\ t.skipped
            /\ t.panner = [x |-> 0, y |-> 0]
            /\ t.panner = settings[t.settings].position
     /\ \A i \in Behind(n) : track[i].panner # settings[track[i].settings].position

\* C23: the end of a load, at whatever point between operations and ticks,
\* changes the sound cache only, by at most one entry that it adds or
\* overwrites: no queue, no track, no settings object and no volume changes.
\* No other step changes the cache, and no step removes an entry from it.
C23_LoadsWriteCacheOnly ==
  [][/\ LoadEnds => /\ UNCHANGED <<streams, track, settings, released, volume>>
                    /\ Cardinality(sounds' \ sounds) <= 1
     /\ ~LoadEnds => sounds' = sounds
     /\ sounds \subseteq sounds']_vars

\* Two loads have been cached while the head of the stream, started and
\* skipped, fades out.
C23_Witness ==
  /\ Cardinality(sounds) > 1
  /\ \E n \in Registered :
        /\ streams[n].tracks # << >>
        /\ track[HeadOf(n)].start
        /\ track[HeadOf(n)].skipped
        /\ track[HeadOf(n)].gain.value > 0

\* C24: skipStream on a registered stream changes no queue and pauses no
\* media.  On an empty queue it changes nothing; otherwise it changes the
\* skipped flag and the gain of the head of that stream and nothing else.
\* A track leaves the stream table only in a step of update(), of
\* clearStream on its stream, or of createStream replacing its stream.
C24_SkipKeepsQueues ==
  [][/\ \A n \in Registered :
          SkipCall(n)
          => /\ UNCHANGED <<streams, settings, released, volume, sounds>>
             /\ DOMAIN track' = DOMAIN track
             /\ \A i \in TrackIds :
                   IF streams[n].tracks # << >> /\ i = HeadOf(n)
                   THEN track'[i] = [track[i] EXCEPT !.skipped = track'[i].skipped,
                                                     !.gain    = track'[i].gain]
                   ELSE track'[i] = track[i]
     /\ \A i \in TrackIds \ DOMAIN track' :
          update \/ ClearCall(StreamOf(i)) \/ createStream(StreamOf(i))]_vars

\* The head of a stream has been skipped: it plays on, with its fade to 0
\* pending, in front of the track queued behind it.
C24_Witness ==
  \E n \in Registered :
     /\ Behind(n) # {}
     /\ track[HeadOf(n)].skipped
     /\ track[HeadOf(n)].media.playing
     /\ RampTargets(track[HeadOf(n)].gain) = <<0>>

\* C25: a head track that skipStream has skipped is eventually removed from
\* its queue, when update() keeps being called and the audio clock keeps
\* advancing: whether the track was not started, was fading in, was in
\* steady playback or ends with loops remaining during the fade-out.
C25_SkippedHeadLeaves ==
  \A i \in 1..MaxMix :
     (i \in TrackIds /\ track[i].skipped) ~> (i \notin TrackIds)

\* The media of a skipped track has ended during the fade-out, with loops
\* remaining, and update() has observed the end.
C25_Witness ==
  \E i \in TrackIds :
     /\ track[i].skipped
     /\ ~track[i].start
     /\ track[i].media.played
     /\ track[i].loops # track[i].queuedLoops
     /\ track[i].gain.value > 0

\* C26: createStream(name) raises no error and leaves name mapped to a
\* stream with an empty queue and the volume 1.0, also when name was
\* registered.  The tracks of the stream it replaces leave the stream table
\* with their media as it was, playing if it played; no track that has left
\* the stream table is queued again, and update() changes none of them.
C26_CreateReplaces ==
  [][/\ \A name \in Names :
          createStream(name)
          => /\ ~result'.error
             /\ streams'[name] = NewStream
             /\ name \in Registered
                => \A i \in Range(streams[name].tracks) :
                      /\ i \notin DOMAIN track'
                      /\ i \in DOMAIN released'
                      /\ released'[i].playing = track[i].media.playing
     /\ \A i \in DOMAIN released :
          /\ i \notin QueuedIn(streams')
          /\ update => released'[i] = released[i]]_vars

\* A stream was replaced while its head played: the track is out of the
\* stream table, its media plays on, and the new stream has its own track.
C26_Witness ==
  \E i \in DOMAIN released :
     /\ released[i].playing
     /\ released[i].stream \in Registered
     /\ streams[released[i].stream].volume = VolMax
     /\ streams[released[i].stream].tracks # << >>

\* The tracks of stream name n whose media is playing: play() was called
\* and since then the media was neither paused nor has it ended.
Playing(n) ==
  {i \in TrackIds : StreamOf(i) = n /\ track[i].media.playing}
    \cup {i \in DOMAIN released : released[i].stream = n /\ released[i].playing}

\* C27: a started track that leaves its queue, in update() by
\* skip-completion or natural end or in clearStream, has its media paused
\* or ended when it leaves, and no stream name has two tracks whose media is
\* playing at the same time.
C27_OnePlayingPerStream ==
  [][/\ \A i \in TrackIds \ DOMAIN track' :
          (track[i].start /\ (update \/ ClearCall(StreamOf(i))))
          => ~released'[i].playing
     /\ \A n \in Names : Cardinality(Playing(n))' <= 1]_vars

\* C28: a tick of update() removes at most one track from each stream, and
\* no other track than the one that was the head when the tick began.
C28_OneShiftPerTick ==
  [][update =>
       \A n \in Registered :
          LET gone == Range(streams[n].tracks) \ Range(streams'[n].tracks)
          IN  /\ Cardinality(gone) <= 1
              /\ \A i \in gone : i = HeadOf(n)]_vars

\* C29: streams are independent.  queueStream, skipStream and clearStream on
\* stream a leave every other stream b as it was: its queue, its volume, its
\* tracks and their settings.  What update() does to stream b is what it
\* does to b taken alone: the new queue and the new head are computed from
\* the queue and the head of b, whatever the other streams hold.
C29_StreamsIndependent ==
  [][/\ \A a \in Names :
          \/ \A b \in Registered \ {a} :
                /\ b \in DOMAIN streams' /\ streams'[b] = streams[b]
                /\ \A i \in Range(streams[b].tracks) :
                      /\ i \in DOMAIN track' /\ track'[i] = track[i]
                      /\ settings'[track[i].settings] = settings[track[i].settings]
          \/ ~(QueueCall(a) \/ SkipCall(a) \/ ClearCall(a))
     /\ update =>
          \A b \in Registered :
             /\ streams'[b] = [streams[b] EXCEPT !.tracks = updateTracks(streams[b])]
             /\ \A i \in Range(streams'[b].tracks) :
                   track'[i] = IF i = HeadOf(b)
                               THEN updateTrack(track[i], streams[b])
                               ELSE track[i]]_vars

\* Two streams with tracks: the head of one is skipped and fades out while
\* the head of the other, not skipped, plays.
C29_Witness ==
  \E a, b \in Registered :
     /\ a # b
     /\ streams[a].tracks # << >> /\ streams[b].tracks # << >>
     /\ track[HeadOf(a)].skipped /\ track[HeadOf(a)].start
     /\ ~track[HeadOf(b)].skipped /\ track[HeadOf(b)].media.playing

\* C30: the stack of game states is never empty, so that the top state that
\* Engine.tick() reads at its start is defined, whatever setNext calls the
\* states make, setNext(null, true) by the only state on the stack included.
C30_StackNeverEmpty ==
  states # << >>

====
